---------------------------- MODULE Spec2Model ----------------------------
(***************************************************************************)
(* Model of the Data Consumption Tool dashboard (src/dashboard_app.py):    *)
(* the process-wide uploaded_data_store, the upload / reset callback, the  *)
(* column classifier and prepare_data, the chart-data preparer.            *)
(*                                                                         *)
(* Text (column names, CSV cells) is a sequence of one-character strings,  *)
(* so that lower(), substring tests, concatenation and parsing are         *)
(* computed character by character.                                        *)
(***************************************************************************)
EXTENDS Integers, Sequences, FiniteSets, TLC

(***************************************************************************)
(* Text helpers: str.lower() and the `in` substring test.                  *)
(***************************************************************************)
UpperChars == <<"A","B","C","D","E","F","G","H","I","J","K","L","M",
                "N","O","P","Q","R","S","T","U","V","W","X","Y","Z">>
LowerChars == <<"a","b","c","d","e","f","g","h","i","j","k","l","m",
                "n","o","p","q","r","s","t","u","v","w","x","y","z">>

LowerChar(c) ==
    IF \E i \in 1..26 : UpperChars[i] = c
    THEN LowerChars[CHOOSE i \in 1..26 : UpperChars[i] = c]
    ELSE c

\* col.lower()
Lower(s) == [i \in 1..Len(s) |-> LowerChar(s[i])]

\* sub in s
Contains(sub, s) ==
    \E i \in 1..(Len(s) - Len(sub) + 1) : SubSeq(s, i, i + Len(sub) - 1) = sub

\* The substrings the classifier looks for.
T_chiller == <<"c","h","i","l","l","e","r">>
T_power   == <<"p","o","w","e","r">>
T_supply  == <<"s","u","p","p","l","y">>
T_chws    == <<"c","h","w","s">>
T_return  == <<"r","e","t","u","r","n">>
T_chwr    == <<"c","h","w","r">>
T_ret     == <<"r","e","t">>
T_temp    == <<"t","e","m","p">>
T_t       == <<"t">>

(***************************************************************************)
(* The column classifier, as written at its two places.                    *)
(***************************************************************************)
\* process_file_upload, the upload report.
UploadIsPower(col)  == Contains(T_chiller, Lower(col)) /\ Contains(T_power, Lower(col))
UploadIsSupplyTempOnly(col) ==
    /\ (Contains(T_supply, Lower(col)) \/ Contains(T_chws, Lower(col)))
    /\ Contains(T_temp, Lower(col))
UploadIsSupply(col) ==
    /\ (Contains(T_supply, Lower(col)) \/ Contains(T_chws, Lower(col)))
    /\ (Contains(T_temp, Lower(col)) \/ Contains(T_t, Lower(col)))
UploadIsReturn(col) ==
    /\ (Contains(T_return, Lower(col)) \/ Contains(T_chwr, Lower(col))
          \/ Contains(T_ret, Lower(col)))
    /\ (Contains(T_temp, Lower(col)) \/ Contains(T_t, Lower(col)))

UploadClassify(columns) ==
    [power_cols  |-> SelectSeq(columns, UploadIsPower),
     supply_cols |-> SelectSeq(columns, UploadIsSupply),
     return_cols |-> SelectSeq(columns, UploadIsReturn)]

\* get_page_content, the dashboard tab.
PageIsPower(col)  == Contains(T_chiller, Lower(col)) /\ Contains(T_power, Lower(col))
PageIsSupply(col) ==
    /\ (Contains(T_supply, Lower(col)) \/ Contains(T_chws, Lower(col)))
    /\ (Contains(T_temp, Lower(col)) \/ Contains(T_t, Lower(col)))
PageIsReturn(col) ==
    /\ (Contains(T_return, Lower(col)) \/ Contains(T_chwr, Lower(col))
          \/ Contains(T_ret, Lower(col)))
    /\ (Contains(T_temp, Lower(col)) \/ Contains(T_t, Lower(col)))

PageClassify(columns) ==
    [power_cols  |-> SelectSeq(columns, PageIsPower),
     supply_cols |-> SelectSeq(columns, PageIsSupply),
     return_cols |-> SelectSeq(columns, PageIsReturn)]

(***************************************************************************)
(* Cell values of a DataFrame: text, a number, the missing-number marker   *)
(* NaN, a timestamp, the missing-timestamp marker NaT.                     *)
(***************************************************************************)
Str(s) == [t |-> "str", s |-> s]
NaN == [t |-> "nan"]
Num(m, e) == [t |-> "num", m |-> m, e |-> e]      \* the number m / 10^e
TS(y, mo, d, h, mi, sec) ==
    [t |-> "ts", y |-> y, mo |-> mo, d |-> d, h |-> h, mi |-> mi, sec |-> sec]
NaT == [t |-> "nat"]

DigitChars == <<"0","1","2","3","4","5","6","7","8","9">>
IsDigit(c) == \E i \in 1..10 : DigitChars[i] = c
DigitVal(c) == (CHOOSE i \in 1..10 : DigitChars[i] = c) - 1
AllDigits(s) == Len(s) > 0 /\ \A i \in 1..Len(s) : IsDigit(s[i])

RECURSIVE ToNat(_)
ToNat(s) ==
    IF s = <<>> THEN 0
    ELSE 10 * ToNat(SubSeq(s, 1, Len(s) - 1)) + DigitVal(s[Len(s)])

\* s.split(c)
RECURSIVE Split(_, _)
Split(s, c) ==
    IF \A i \in 1..Len(s) : s[i] # c THEN <<s>>
    ELSE LET i == CHOOSE i \in 1..Len(s) : s[i] = c /\ \A j \in 1..(i - 1) : s[j] # c
         IN  <<SubSeq(s, 1, i - 1)>> \o Split(SubSeq(s, i + 1, Len(s)), c)

RECURSIVE StripZeros(_)
StripZeros(s) ==
    IF s # <<>> /\ s[Len(s)] = "0" THEN StripZeros(SubSeq(s, 1, Len(s) - 1)) ELSE s

\* The number a text cell denotes (an optional sign, digits, an optional
\* fraction), or NaN: what pandas' numeric parser makes of a CSV cell.
ParseNum(s) ==
    LET neg   == s # <<>> /\ s[1] = "-"
        body  == IF neg THEN Tail(s) ELSE s
        parts == Split(body, ".")
        ip    == parts[1]
        fp    == IF Len(parts) = 2 THEN StripZeros(parts[2]) ELSE <<>>
        ok    == /\ Len(parts) \in {1, 2}
                 /\ \A k \in 1..Len(parts) : parts[k] = <<>> \/ AllDigits(parts[k])
                 /\ \E k \in 1..Len(parts) : parts[k] # <<>>
        mag   == ToNat(ip) * (10 ^ Len(fp)) + ToNat(fp)
    IN  IF ok THEN Num(IF neg THEN 0 - mag ELSE mag, Len(fp)) ELSE NaN

IsLeap(y) == (y % 4 = 0 /\ y % 100 # 0) \/ y % 400 = 0
DaysIn(mo, y) ==
    IF mo = 2 THEN (IF IsLeap(y) THEN 29 ELSE 28)
    ELSE IF mo \in {4, 6, 9, 11} THEN 30 ELSE 31

\* A field of one or two digits, as strptime's %m %d %H %M %S accept it.
Field2(s) == Len(s) \in {1, 2} /\ AllDigits(s)

\* The timestamp of date fields and time fields already split, or NaT.
MakeTS(ys, mos, ds, hs, mis, ss) ==
    IF /\ Len(ys) = 4 /\ AllDigits(ys)
       /\ Field2(mos) /\ Field2(ds) /\ Field2(hs) /\ Field2(mis) /\ Field2(ss)
       /\ ToNat(ys) >= 1
       /\ ToNat(mos) \in 1..12
       /\ ToNat(ds) \in 1..DaysIn(ToNat(mos), ToNat(ys))
       /\ ToNat(hs) \in 0..23 /\ ToNat(mis) \in 0..59 /\ ToNat(ss) \in 0..59
    THEN TS(ToNat(ys), ToNat(mos), ToNat(ds), ToNat(hs), ToNat(mis), ToNat(ss))
    ELSE NaT

\* strptime with format '%m/%d/%Y %H:%M:%S'; NaT where the text does not match.
ParseFixed(s) ==
    LET dt == Split(s, " ")
        d  == Split(dt[1], "/")
        tm == Split(dt[2], ":")
    IN  IF Len(dt) = 2 /\ Len(d) = 3 /\ Len(tm) = 3
        THEN MakeTS(d[3], d[1], d[2], tm[1], tm[2], tm[3])
        ELSE NaT

\* ISO text 'YYYY-MM-DD HH:MM:SS'; NaT where the text does not match.
ParseIso(s) ==
    LET dt == Split(s, " ")
        d  == Split(dt[1], "-")
        tm == Split(dt[2], ":")
    IN  IF Len(dt) = 2 /\ Len(d) = 3 /\ Len(tm) = 3
        THEN MakeTS(d[1], d[2], d[3], tm[1], tm[2], tm[3])
        ELSE NaT

\* to_datetime with format=None: best-effort parsing, which reads the
\* month-first form and the ISO form.
ParseGeneric(s) == IF ParseFixed(s) # NaT THEN ParseFixed(s) ELSE ParseIso(s)

(***************************************************************************)
(* DataFrames: the column names in order, the row labels (pandas' index)   *)
(* in order, and one sequence of cells per column.                         *)
(***************************************************************************)
\* Maximum number of data points to display in graphs
MAX_POINTS == 1000

NRows(df) == Len(df.index)
\* df.empty: an axis of length 0
IsEmpty(df) == Len(df.columns) = 0 \/ NRows(df) = 0
\* col in df.columns
HasCol(df, col) == \E k \in 1..Len(df.columns) : df.columns[k] = col
ColPos(df, col) == CHOOSE k \in 1..Len(df.columns) : df.columns[k] = col
\* df[col]
GetCol(df, col) == df.data[ColPos(df, col)]
\* df[col] = values: replaces the column, or appends a new last column
SetCol(df, col, values) ==
    IF HasCol(df, col)
    THEN [df EXCEPT !.data[ColPos(df, col)] = values]
    ELSE [df EXCEPT !.columns = Append(@, col), !.data = Append(@, values)]

\* A column read_csv gave a numeric dtype, or one to_numeric made numeric:
\* it holds no text.
IsNumericCol(cells) == \A i \in 1..Len(cells) : cells[i].t \in {"num", "nan"}

\* pd.read_csv on a header row and data rows of raw text cells.  A row with
\* more fields than the header is a ParserError; a short row is padded with
\* missing cells; a column whose every cell is a number or empty becomes
\* numeric, any other column keeps its text; an empty cell is NaN.
CsvFails(csv) ==
    \/ Len(csv.header) = 0
    \/ \E i \in 1..Len(csv.rows) : Len(csv.rows[i]) > Len(csv.header)

RawCell(csv, i, k) == IF k <= Len(csv.rows[i]) THEN csv.rows[i][k] ELSE <<>>

ReadCsv(csv) ==
    LET n == Len(csv.rows)
        numeric == [k \in 1..Len(csv.header) |->
                       \A i \in 1..n : RawCell(csv, i, k) = <<>>
                                         \/ ParseNum(RawCell(csv, i, k)) # NaN]
        cell(i, k) == IF RawCell(csv, i, k) = <<>> THEN NaN
                      ELSE IF numeric[k] THEN ParseNum(RawCell(csv, i, k))
                      ELSE Str(RawCell(csv, i, k))
    IN  [columns |-> csv.header,
         index   |-> [i \in 1..n |-> i - 1],
         data    |-> [k \in 1..Len(csv.header) |-> [i \in 1..n |-> cell(i, k)]]]

N_DateTime == <<"D","a","t","e","/","T","i","m","e">>
N_Date     == <<"D","a","t","e">>
N_Time     == <<"T","i","m","e">>

\* df.iloc[::step, :].copy(): rows at positions 0, step, 2*step, ...
Stride(df, step) ==
    LET m == (NRows(df) + step - 1) \div step
        pick(cells) == [j \in 1..m |-> cells[(j - 1) * step + 1]]
    IN  [columns |-> df.columns,
         index   |-> pick(df.index),
         data    |-> [k \in 1..Len(df.columns) |-> pick(df.data[k])]]

\* pd.to_datetime(series, format='%m/%d/%Y %H:%M:%S', errors='coerce'):
\* timestamps pass through, text is parsed, anything else is NaT.
ToDatetimeFixed(cells) ==
    [i \in 1..Len(cells) |->
        IF cells[i].t = "ts" THEN cells[i]
        ELSE IF cells[i].t = "str" THEN ParseFixed(cells[i].s)
        ELSE NaT]

\* pd.to_datetime(series, format=None, errors='coerce')
ToDatetimeGeneric(cells) ==
    [i \in 1..Len(cells) |->
        IF cells[i].t = "ts" THEN cells[i]
        ELSE IF cells[i].t = "str" THEN ParseGeneric(cells[i].s)
        ELSE NaT]

\* df['Date'] + ' ' + df['Time'] raises TypeError when the Date column is
\* numeric (number + str), or when a text Date meets a numeric Time.
ConcatRaises(date, time) ==
    \/ IsNumericCol(date)
    \/ \E i \in 1..Len(date) : date[i].t = "str" /\ time[i].t = "num"

\* df['Date'] + ' ' + df['Time'], where it does not raise: text joined by a
\* space, missing where either side is missing.
ConcatDateTime(date, time) ==
    [i \in 1..Len(date) |->
        IF date[i].t = "str" /\ time[i].t = "str"
        THEN Str(date[i].s \o <<" ">> \o time[i].s)
        ELSE NaN]

\* pd.to_numeric(series, errors='coerce'): text that is a number becomes
\* the number, any other text NaN.
ToNumeric(cells) ==
    [i \in 1..Len(cells) |->
        IF cells[i].t = "str" THEN ParseNum(cells[i].s) ELSE cells[i]]

\* pd.to_numeric(df.get(col, pd.Series()), errors='coerce') assigned to
\* df[col]: a column the frame lacks comes out as all NaN.
CoerceCol(df, col) ==
    SetCol(df, col, IF HasCol(df, col) THEN ToNumeric(GetCol(df, col))
                    ELSE [i \in 1..NRows(df) |-> NaN])

\* for col in selected_cols: df[col] = pd.to_numeric(...)
RECURSIVE CoerceAll(_, _)
CoerceAll(df, cols) ==
    IF cols = <<>> THEN df ELSE CoerceAll(CoerceCol(df, Head(cols)), Tail(cols))

\* Mutant of Downsample: the stride rounded up.
DownsampleCeil(df) ==
    IF NRows(df) > MAX_POINTS
    THEN Stride(df, (NRows(df) + MAX_POINTS - 1) \div MAX_POINTS)
    ELSE df

\* The downsampling step of prepare_data.
Downsample(df) ==
    IF NRows(df) > MAX_POINTS THEN Stride(df, NRows(df) \div MAX_POINTS) ELSE df

\* Mutant of XCol: the Date + Time case forgotten.
XColNoSynth(df) == IF HasCol(df, N_DateTime) THEN N_DateTime ELSE df.columns[1]

\* The x-axis column prepare_data chooses.
XCol(df) ==
    IF HasCol(df, N_DateTime) THEN N_DateTime
    ELSE IF HasCol(df, N_Date) /\ HasCol(df, N_Time) THEN N_DateTime
    ELSE df.columns[1]

\* Whether the x-axis conversion of prepare_data raises.
XRaises(df) ==
    /\ XCol(df) = N_DateTime
    /\ ~HasCol(df, N_DateTime)
    /\ ConcatRaises(GetCol(df, N_Date), GetCol(df, N_Time))

\* The x-axis conversion of prepare_data.
ConvertX(df) ==
    IF XCol(df) # N_DateTime THEN df
    ELSE IF HasCol(df, N_DateTime)
         THEN SetCol(df, N_DateTime, ToDatetimeFixed(GetCol(df, N_DateTime)))
         ELSE SetCol(df, N_DateTime,
                     ToDatetimeGeneric(ConcatDateTime(GetCol(df, N_Date),
                                                      GetCol(df, N_Time))))

\* prepare_data on the stored frame `df` (non-empty): what it returns or
\* raises, and the stored frame afterwards.  Only a frame of more than
\* MAX_POINTS rows is copied; a smaller one is the stored object itself,
\* so the column assignments land in the store.
PrepareData(df, selected_cols) ==
    LET work == Downsample(df)
        out  == CoerceAll(ConvertX(work), selected_cols)
    IN  IF XRaises(work)
        THEN [raised |-> "TypeError", stored |-> df]
        ELSE [raised |-> "", df |-> out, x_col |-> XCol(work),
              stored |-> IF NRows(df) > MAX_POINTS THEN df ELSE out]

(***************************************************************************)
(* The inputs: column names, cell texts, CSV files, upload payloads,       *)
(* checklist selections and users.                                         *)
(***************************************************************************)
N_Power     == <<"C","h","i","l","l","e","r","1","_","P","o","w","e","r">>
N_CHWS      == <<"C","H","W","S","_","T","e","m","p">>
N_CHWR      == <<"C","H","W","R","_","T","e","m","p">>
N_Timestamp == <<"T","i","m","e","s","t","a","m","p">>
N_Power1    == <<"P","o","w","e","r","1">>
N_SupRate   == <<"S","u","p","p","l","y","_","R","a","t","e">>
N_CHWSFlow  == <<"C","H","W","S","_","F","l","o","w">>
N_RetFlow   == <<"R","e","t","u","r","n","_","F","l","o","w">>
N_Upper     == <<"C","H","I","L","L","E","R","_","K","W","_","P","O","W","E","R">>
N_RetT      == <<"R","e","t","_","T">>

X_stamp  == <<"0","1","/","0","2","/","2","0","2","4"," ","0","3",":","0","4",":","0","5">>
X_short  == <<"1","/","2","/","2","0","2","4"," ","3",":","0","4",":","0","5">>
X_iso    == <<"2","0","2","4","-","0","1","-","0","2"," ","0","3",":","0","4",":","0","5">>
X_date   == <<"0","1","/","0","2","/","2","0","2","4">>
X_isoday == <<"2","0","2","4","-","0","1","-","0","2">>
X_time   == <<"0","3",":","0","4",":","0","5">>
X_daynum == <<"2","0","2","4","0","1","0","2">>
X_12     == <<"1","2">>
X_7      == <<"7">>
X_6p5    == <<"6",".","5","0">>
X_na     == <<"n","/","a">>
X_x      == <<"x">>
X_t0     == <<"t","0">>

\* The largest number of rows of a file of the small catalogue.
MaxRows == 2
\* The largest stride floor(n / MAX_POINTS) of a file of the large catalogue.
MaxStride == 2

\* The CSV files: a header and the rows the file repeats.
Schemas ==
    << [header |-> <<N_DateTime, N_Power>>,
        rows   |-> << <<X_stamp, X_12>>, <<X_iso, X_na>>, <<X_x, X_6p5>> >>],
       [header |-> <<N_Date, N_Time, N_Power1>>,
        rows   |-> << <<X_date, X_time, X_7>>, <<X_isoday, X_time>>,
                      <<X_date, X_x, X_na>> >>],
       [header |-> <<N_Power, N_CHWS, N_Timestamp>>,
        rows   |-> << <<X_12, X_6p5, X_t0>>, <<X_na, X_7, X_t0>>,
                      <<X_7, <<>>, X_x>> >>],
       [header |-> <<N_Date, N_Time, N_SupRate, N_CHWSFlow, N_RetFlow>>,
        rows   |-> << <<X_daynum, X_time, X_7, X_12, X_6p5>>,
                      <<X_daynum, X_time, X_7, X_12, X_6p5>>,
                      <<X_daynum, X_time, X_7, X_12, X_6p5>> >>],
       [header |-> <<N_DateTime, N_Power>>,
        rows   |-> << <<X_short, X_7>>, <<X_x, X_na>>, <<<<>>, X_12>> >>],
       \* malformed: a data row with more fields than the header
       [header |-> <<N_Power>>,
        rows   |-> << <<X_12, X_7>> >>],
       \* malformed: no header row at all
       [header |-> <<>>,
        rows   |-> << >>] >>

\* The file of schema k with n data rows; schema 0 is a file of a given
\* header whose every cell is the number 7.
CsvOf(file) ==
    IF file.schema = 0
    THEN [header |-> file.header,
          rows   |-> [i \in 1..file.n |-> [k \in 1..Len(file.header) |-> X_7]]]
    ELSE LET sc == Schemas[file.schema]
         IN  [header |-> sc.header,
              rows   |-> [i \in 1..file.n |-> sc.rows[((i - 1) % Len(sc.rows)) + 1]]]

\* The largest number of columns of a file of the header catalogue.
MaxCols == 3

ClassNames ==
    {N_Power, N_CHWS, N_CHWR, N_Timestamp, N_SupRate, N_CHWSFlow, N_RetFlow,
     N_Upper, N_RetT}

\* Every list of at most MaxCols distinct names, in every order.
HeaderLists ==
    UNION { {h \in [1..len -> ClassNames] :
                \A i, j \in 1..len : i # j => h[i] # h[j]} : len \in 1..MaxCols }

HeaderFiles == {[schema |-> 0, n |-> 1, header |-> h] : h \in HeaderLists}

SmallFiles ==
    [schema : 1..3, n : {MaxRows}]
      \cup {[schema |-> 4, n |-> 1], [schema |-> 3, n |-> 0],
            [schema |-> 6, n |-> 1], [schema |-> 7, n |-> 0]}

LargeRowCounts ==
    {1, MAX_POINTS, MAX_POINTS + 1, MAX_POINTS + MAX_POINTS \div 2}
      \cup UNION {{k * MAX_POINTS - 1, k * MAX_POINTS + 1} : k \in 2..MaxStride}

LargeFiles == [schema : {5}, n : LargeRowCounts]

F_csv == <<"d","a","t","a",".","c","s","v">>
F_txt == <<"d","a","t","a",".","t","x","t">>
Dot_csv == <<".","c","s","v">>

\* filename.endswith(suffix)
EndsWith(s, suffix) ==
    Len(s) >= Len(suffix) /\ SubSeq(s, Len(s) - Len(suffix) + 1, Len(s)) = suffix

\* An upload: the widget's contents, 'mime,base64data' when well formed,
\* given by the number of comma-separated parts, whether the last part is
\* valid base64, whether the bytes are valid UTF-8, and the CSV file the
\* text is; and the widget's filename.
WellFormed(file, filename) ==
    [parts |-> 2, b64ok |-> TRUE, utf8ok |-> TRUE, file |-> file, filename |-> filename]

Defective(file) ==
    { [WellFormed(file, fn) EXCEPT !.parts = 1] : fn \in {F_csv, F_txt} }
      \cup { [WellFormed(file, fn) EXCEPT !.parts = 3] : fn \in {F_csv, F_txt} }
      \cup { [WellFormed(file, fn) EXCEPT !.b64ok = FALSE] : fn \in {F_csv, F_txt} }
      \cup { [WellFormed(file, fn) EXCEPT !.utf8ok = FALSE] : fn \in {F_csv, F_txt} }

SmallUploads ==
    { WellFormed(f, F_csv) : f \in SmallFiles }
      \cup { WellFormed([schema |-> 3, n |-> MaxRows], F_txt) }
      \cup Defective([schema |-> 3, n |-> MaxRows])

LargeUploads ==
    { WellFormed(f, F_csv) : f \in LargeFiles }
      \cup { WellFormed([schema |-> 5, n |-> MAX_POINTS + 1], F_txt),
             [WellFormed([schema |-> 5, n |-> MAX_POINTS + 1], F_csv) EXCEPT !.parts = 1] }

\* What the upload widget may still hold when the reset button is pressed.
NoUpload == [parts |-> 0]
ResetWidget ==
    {NoUpload, WellFormed([schema |-> 1, n |-> MaxRows], F_csv),
     WellFormed([schema |-> 3, n |-> MaxRows], F_txt)}

\* What a checklist can hold: the columns some dataset had in a category.
Selections == {<<>>, <<N_Power>>, <<N_CHWS>>, <<N_CHWR>>}

Users == {"u1", "u2"}

(***************************************************************************)
(* The state.                                                              *)
(*   store  uploaded_data_store, the process-wide dict: the empty function *)
(*          or a function on {"data"}                                      *)
(*   pc     where each user's callback in flight stands                    *)
(*   ret    what the callback that just completed returned or raised,      *)
(*          until the framework has sent it to the browser                 *)
(*   hist   the last write to the store, the last store-modifying callback *)
(*          that completed, and whether a dataset was ever stored          *)
(***************************************************************************)
VARIABLES store, pc, ret, hist
vars == <<store, pc, ret, hist>>

Idle == [k |-> "idle"]
NoRet == [op |-> "none"]
NoEvent == [kind |-> "none"]

Init ==
    /\ store = <<>>
    /\ pc = [u \in Users |-> Idle]
    /\ ret = NoRet
    /\ hist = [lastWrite |-> NoEvent, lastDone |-> NoEvent, uploaded |-> FALSE]

\* 'data' in uploaded_data_store
HasData == "data" \in DOMAIN store

\* Mutant of Assign: setdefault, the first dataset stays.
AssignIfAbsent(st, df) == IF "data" \in DOMAIN st THEN st ELSE [data |-> df]

\* uploaded_data_store['data'] = df
Assign(st, df) == [data |-> df]

\* Mutant of Clear: a rebinding of a local name, the dict stays as it was.
ClearRebindsLocal(st) == st

\* uploaded_data_store.clear()
Clear(st) == <<>>

\* prepare_data's (None, None), and its (df, x_col)
NonePair == [isNone |-> TRUE]
Pair(df, x_col) == [isNone |-> FALSE, df |-> df, x_col |-> x_col]

\* handle_file_upload triggered by the reset button: uploaded_data_store.clear()
\* and the confirmation message, whatever the upload widget holds.
Reset(u, up) ==
    /\ ret = NoRet /\ pc[u] = Idle
    /\ store' = Clear(store)
    /\ ret' = [op |-> "reset", user |-> u, kind |-> "cleared", upload |-> up]
    /\ hist' = [hist EXCEPT !.lastWrite = [kind |-> "reset"],
                            !.lastDone = [kind |-> "reset"]]
    /\ UNCHANGED pc

\* The report process_file_upload builds after storing the frame.
UploadReport(up, df) ==
    [filename |-> up.filename, rows |-> NRows(df), ncols |-> Len(df.columns),
     cls |-> UploadClassify(df.columns), columns |-> df.columns]

\* handle_file_upload triggered by the upload widget with contents:
\* process_file_upload up to the store assignment.  The split and the
\* base64 decoding stand before the try block; the filename check, the
\* UTF-8 decoding and read_csv stand inside it.
HandleUpload(u, up) ==
    /\ ret = NoRet /\ pc[u] = Idle
    /\ IF up.parts # 2
       THEN /\ ret' = [op |-> "upload", user |-> u, kind |-> "raised",
                       exc |-> "ValueError", upload |-> up]
            /\ UNCHANGED <<store, pc, hist>>
       ELSE IF ~up.b64ok
       THEN /\ ret' = [op |-> "upload", user |-> u, kind |-> "raised",
                       exc |-> "binascii.Error", upload |-> up]
            /\ UNCHANGED <<store, pc, hist>>
       ELSE IF ~EndsWith(up.filename, Dot_csv)
       THEN /\ ret' = [op |-> "upload", user |-> u, kind |-> "unsupported",
                       upload |-> up]
            /\ UNCHANGED <<store, pc, hist>>
       ELSE IF ~up.utf8ok
       THEN /\ ret' = [op |-> "upload", user |-> u, kind |-> "error",
                       text |-> "UnicodeDecodeError", upload |-> up]
            /\ UNCHANGED <<store, pc, hist>>
       ELSE IF CsvFails(CsvOf(up.file))
       THEN /\ ret' = [op |-> "upload", user |-> u, kind |-> "error",
                       text |-> IF Len(CsvOf(up.file).header) = 0
                                THEN "EmptyDataError" ELSE "ParserError",
                       upload |-> up]
            /\ UNCHANGED <<store, pc, hist>>
       ELSE /\ store' = Assign(store, ReadCsv(CsvOf(up.file)))
            /\ pc' = [pc EXCEPT ![u] =
                        [k |-> "stored", upload |-> up,
                         report |-> UploadReport(up, ReadCsv(CsvOf(up.file)))]]
            /\ hist' = [hist EXCEPT !.lastWrite = [kind |-> "upload", file |-> up.file],
                                    !.uploaded = TRUE]
            /\ UNCHANGED ret

\* process_file_upload after the store assignment: the success report.
UploadReturn(u) ==
    /\ ret = NoRet /\ pc[u].k = "stored"
    /\ ret' = [op |-> "upload", user |-> u, kind |-> "success",
               report |-> pc[u].report, upload |-> pc[u].upload]
    /\ pc' = [pc EXCEPT ![u] = Idle]
    /\ hist' = [hist EXCEPT !.lastDone = [kind |-> "upload",
                                          file |-> pc[u].upload.file]]
    /\ UNCHANGED store

\* handle_file_upload with no contents: process_file_upload's status line,
\* first its test 'data' in uploaded_data_store ...
StatusCheck(u) ==
    /\ ret = NoRet /\ pc[u] = Idle
    /\ IF HasData
       THEN pc' = [pc EXCEPT ![u] = [k |-> "status"]] /\ UNCHANGED ret
       ELSE ret' = [op |-> "status", user |-> u, kind |-> "no_file"] /\ UNCHANGED pc
    /\ UNCHANGED <<store, hist>>

\* ... then its reads of uploaded_data_store["data"].
StatusRead(u) ==
    /\ ret = NoRet /\ pc[u].k = "status"
    /\ ret' = IF HasData
              THEN [op |-> "status", user |-> u, kind |-> "available",
                    rows |-> NRows(store.data), ncols |-> Len(store.data.columns)]
              ELSE [op |-> "status", user |-> u, kind |-> "raised", exc |-> "KeyError"]
    /\ pc' = [pc EXCEPT ![u] = Idle]
    /\ UNCHANGED <<store, hist>>

\* update_graph: prepare_data's test that a non-empty dataset is stored;
\* with none, (None, None) and the empty figure px.line().
PrepareCheck(u, cols) ==
    /\ ret = NoRet /\ pc[u] = Idle
    /\ IF ~HasData \/ IsEmpty(store.data)
       THEN /\ ret' = [op |-> "graph", user |-> u, kind |-> "returned", cols |-> cols,
                       prepared |-> NonePair, fig |-> "empty"]
            /\ UNCHANGED pc
       ELSE /\ pc' = [pc EXCEPT ![u] = [k |-> "prep", cols |-> cols]]
            /\ UNCHANGED ret
    /\ UNCHANGED <<store, hist>>

\* update_graph: prepare_data from its read of uploaded_data_store['data']
\* on, and the line chart of what it returns.
PrepareRead(u) ==
    /\ ret = NoRet /\ pc[u].k = "prep"
    /\ IF ~HasData
       THEN /\ ret' = [op |-> "graph", user |-> u, kind |-> "raised",
                       cols |-> pc[u].cols, exc |-> "KeyError"]
            /\ UNCHANGED store
       ELSE LET r == PrepareData(store.data, pc[u].cols)
            IN  /\ ret' = IF r.raised # ""
                          THEN [op |-> "graph", user |-> u, kind |-> "raised",
                                cols |-> pc[u].cols, exc |-> r.raised]
                          ELSE [op |-> "graph", user |-> u, kind |-> "returned",
                                cols |-> pc[u].cols,
                                prepared |-> Pair(r.df, r.x_col),
                                fig |-> "line"]
                /\ store' = [store EXCEPT !.data = r.stored]
    /\ pc' = [pc EXCEPT ![u] = Idle]
    /\ UNCHANGED hist

\* get_page_content for the Dashboard tab: its test that a non-empty
\* dataset is stored; with none, the placeholder page.
PageCheck(u) ==
    /\ ret = NoRet /\ pc[u] = Idle
    /\ IF ~HasData \/ IsEmpty(store.data)
       THEN ret' = [op |-> "page", user |-> u, kind |-> "placeholder"] /\ UNCHANGED pc
       ELSE pc' = [pc EXCEPT ![u] = [k |-> "page"]] /\ UNCHANGED ret
    /\ UNCHANGED <<store, hist>>

\* get_page_content for the Dashboard tab: its read of the stored frame
\* and the three checklists.
PageRead(u) ==
    /\ ret = NoRet /\ pc[u].k = "page"
    /\ ret' = IF HasData
              THEN [op |-> "page", user |-> u, kind |-> "sections",
                    columns |-> store.data.columns,
                    cls |-> PageClassify(store.data.columns)]
              ELSE [op |-> "page", user |-> u, kind |-> "raised", exc |-> "KeyError"]
    /\ pc' = [pc EXCEPT ![u] = Idle]
    /\ UNCHANGED <<store, hist>>

\* The framework sends the callback's output (or its error) to the browser.
Deliver ==
    /\ ret # NoRet
    /\ ret' = NoRet
    /\ UNCHANGED <<store, pc, hist>>

\* Two users on one process, small files.
Next ==
    \/ \E u \in Users, up \in SmallUploads : HandleUpload(u, up)
    \/ \E u \in Users : UploadReturn(u)
    \/ \E u \in Users, up \in ResetWidget : Reset(u, up)
    \/ \E u \in Users : StatusCheck(u)
    \/ \E u \in Users : StatusRead(u)
    \/ \E u \in Users, cols \in Selections : PrepareCheck(u, cols)
    \/ \E u \in Users : PrepareRead(u)
    \/ \E u \in Users : PageCheck(u)
    \/ \E u \in Users : PageRead(u)
    \/ Deliver

Spec == Init /\ [][Next]_vars

\* One user, files around and above MAX_POINTS rows.
NextRows ==
    \/ \E up \in LargeUploads : HandleUpload("u1", up)
    \/ UploadReturn("u1")
    \/ \E up \in ResetWidget : Reset("u1", up)
    \/ \E cols \in Selections : PrepareCheck("u1", cols)
    \/ PrepareRead("u1")
    \/ Deliver

SpecRows == Init /\ [][NextRows]_vars

\* Two users, the callbacks that write the store (and the status line).
NextStore ==
    \/ \E u \in Users, up \in SmallUploads : HandleUpload(u, up)
    \/ \E u \in Users : UploadReturn(u)
    \/ \E u \in Users, up \in ResetWidget : Reset(u, up)
    \/ \E u \in Users : StatusCheck(u)
    \/ \E u \in Users : StatusRead(u)
    \/ Deliver

SpecStore == Init /\ [][NextStore]_vars

\* The classifier on every header of the header catalogue: user u1 has
\* just stored the file, then gets the upload report; user u2 opens the
\* Dashboard tab.
InitClassify ==
    \E f \in HeaderFiles :
        LET up == WellFormed(f, F_csv)
            df == ReadCsv(CsvOf(f))
        IN  /\ store = Assign(<<>>, df)
            /\ pc = [u \in Users |->
                       IF u = "u1"
                       THEN [k |-> "stored", upload |-> up, report |-> UploadReport(up, df)]
                       ELSE Idle]
            /\ ret = NoRet
            /\ hist = [lastWrite |-> [kind |-> "upload", file |-> f],
                       lastDone |-> NoEvent, uploaded |-> TRUE]

NextClassify ==
    \/ UploadReturn("u1")
    \/ PageCheck("u2")
    \/ PageRead("u2")
    \/ Deliver

SpecClassify == InitClassify /\ [][NextClassify]_vars

(***************************************************************************)
(* The claims.                                                             *)
(***************************************************************************)
\* A graph callback has just completed with a table from prepare_data.
GraphTable == ret.op = "graph" /\ ret.kind = "returned" /\ ~ret.prepared.isNone

\* The step completes a callback of kind op.
Completes(op) == ret.op = "none" /\ ret'.op = op

\* C1: whatever the stored dataset's row count and the selection, the table
\* prepare_data returns has at most MAX_POINTS rows.
C1_AtMostMaxPoints == GraphTable => NRows(ret.prepared.df) <= MAX_POINTS

\* C2: an upload with contents whose filename does not end in '.csv' gets
\* the 'Unsupported file format' message and leaves the store as it was.
C2_NonCsvRejected ==
    [][(Completes("upload") /\ ~EndsWith(ret'.upload.filename, Dot_csv))
          => (ret'.kind = "unsupported" /\ store' = store)]_vars

\* The upload's payload fails at a decoding or parsing step the code comes to.
FailsDecoding(up) ==
    \/ up.parts # 2
    \/ ~up.b64ok
    \/ EndsWith(up.filename, Dot_csv) /\ (~up.utf8ok \/ CsvFails(CsvOf(up.file)))

\* C3: an upload with contents whose payload fails at a decoding or parsing
\* step does not raise: it gets the generic error message with the error
\* text, and the store is as it was.
C3_DecodeFailureCaught ==
    [][(Completes("upload") /\ FailsDecoding(ret'.upload))
          => (ret'.kind = "error" /\ store' = store)]_vars

\* C4: a callback triggered by the reset button empties the store and
\* returns the confirmation, whatever the upload widget holds, and starts
\* no upload; an empty store stays empty until an upload's store
\* assignment; a chart preparation that starts on an empty store returns
\* None and the graph is empty.
C4_ResetThenNone ==
    [][/\ Completes("reset") => (store' = <<>> /\ ret'.kind = "cleared" /\ pc' = pc)
       /\ (~HasData /\ HasData') =>
             \E u \in Users : pc[u] = Idle /\ pc'[u].k = "stored"
       /\ \A u \in Users :
             (~HasData /\ pc[u] = Idle /\ pc'[u] # Idle) => pc'[u].k = "stored"
       /\ (~HasData /\ Completes("graph") /\ pc' = pc) =>
             (ret'.kind = "returned" /\ ret'.prepared.isNone /\ ret'.fig = "empty")
      ]_vars

\* Witness of C4: after an upload and then a reset, a chart preparation
\* has returned None.
C4_Witness ==
    /\ hist.uploaded /\ hist.lastWrite.kind = "reset"
    /\ ret.op = "graph" /\ ret.kind = "returned" /\ ret.prepared.isNone

Quiescent == \A u \in Users : pc[u] = Idle

\* The dataset read from a file of the catalogue.
DatasetOf(file) == [data |-> ReadCsv(CsvOf(file))]

\* C5 as stated: once no callback is in flight, the store holds the dataset
\* of the last successful upload that completed if no reset completed after
\* it, and nothing otherwise.
C5_LastCompletedWins ==
    Quiescent =>
        store = IF hist.lastDone.kind = "upload" THEN DatasetOf(hist.lastDone.file)
                ELSE <<>>

\* C5 as amended: the store holds at most the one entry "data", and its
\* content is that of the last write: the dataset of the last upload that
\* assigned it, or nothing after a reset's clear or before any write; an
\* upload that is rejected, fails or raises leaves the store as it was.
C5_LastWriterWins ==
    /\ [](/\ DOMAIN store \subseteq {"data"}
          /\ store = IF hist.lastWrite.kind = "upload"
                     THEN DatasetOf(hist.lastWrite.file) ELSE <<>>)
    /\ [][(Completes("upload") /\ ret'.kind # "success") => store' = store]_vars

\* Witness of C5: an upload assigned the store, another user's reset
\* cleared it, and the upload completed last; the store is empty.
C5_Witness ==
    /\ Quiescent /\ ret.op = "upload" /\ ret.kind = "success"
    /\ hist.lastWrite.kind = "reset" /\ store = <<>>

Range(seq) == {seq[i] : i \in 1..Len(seq)}
Has(word, name) == Contains(word, Lower(name))
RulePower(name)  == Has(T_chiller, name) /\ Has(T_power, name)
RuleSupply(name) ==
    (Has(T_supply, name) \/ Has(T_chws, name)) /\ (Has(T_temp, name) \/ Has(T_t, name))
RuleReturn(name) ==
    /\ (Has(T_return, name) \/ Has(T_chwr, name) \/ Has(T_ret, name))
    /\ (Has(T_temp, name) \/ Has(T_t, name))

\* The classification cls of the columns follows the rules name by name, is
\* the same at both places that classify and for the reversed list, and
\* stays when a category's columns are classified again.
Classified(columns, cls) ==
    /\ \A name \in Range(columns) :
          /\ name \in Range(cls.power_cols)  <=> RulePower(name)
          /\ name \in Range(cls.supply_cols) <=> RuleSupply(name)
          /\ name \in Range(cls.return_cols) <=> RuleReturn(name)
    /\ UploadClassify(columns) = cls /\ PageClassify(columns) = cls
    /\ LET reversed == [i \in 1..Len(columns) |-> columns[Len(columns) + 1 - i]]
           again    == UploadClassify(reversed)
       IN  /\ Range(again.power_cols)  = Range(cls.power_cols)
           /\ Range(again.supply_cols) = Range(cls.supply_cols)
           /\ Range(again.return_cols) = Range(cls.return_cols)
           /\ PageClassify(reversed) = again
    /\ UploadClassify(cls.power_cols).power_cols = cls.power_cols
    /\ UploadClassify(cls.supply_cols).supply_cols = cls.supply_cols
    /\ UploadClassify(cls.return_cols).return_cols = cls.return_cols
    /\ columns = <<N_Power, N_CHWS, N_Timestamp>> =>
          cls = [power_cols |-> <<N_Power>>, supply_cols |-> <<N_CHWS>>,
                 return_cols |-> <<>>]

\* C6: for every list of column names (each list of the catalogue in every
\* order), the categories the upload report and the dashboard tab give
\* follow the three substring rules name by name, so they are the same for
\* every ordering, on repetition and at both places; for Chiller1_Power,
\* CHWS_Temp, Timestamp they are {Chiller1_Power}, {CHWS_Temp}, {}.
C6_Classifier ==
    /\ (ret.op = "upload" /\ ret.kind = "success")
          => Classified(ret.report.columns, ret.report.cls)
    /\ (ret.op = "page" /\ ret.kind = "sections") => Classified(ret.columns, ret.cls)

\* Witness of C6: the dashboard tab of the example's columns in another
\* order, with the example's categories.
C6_Witness ==
    /\ ret.op = "page" /\ ret.kind = "sections"
    /\ ret.columns = <<N_Timestamp, N_CHWS, N_Power>>
    /\ ret.cls = [power_cols |-> <<N_Power>>, supply_cols |-> <<N_CHWS>>,
                  return_cols |-> <<>>]

\* C7: prepare_data returns None exactly when the store holds no dataset or
\* an empty one, and the graph is then empty; in every other case (the
\* dataset still stored when it is read) it returns a table and an x-axis
\* column.
C7_NoneExactlyWhenNoData ==
    [][\A u \in Users :
          /\ (pc[u] = Idle /\ Completes("graph") /\ ret'.user = u) =>
                /\ ret'.kind = "returned" /\ ret'.prepared.isNone /\ ret'.fig = "empty"
                /\ ~HasData \/ IsEmpty(store.data)
          /\ (pc[u] = Idle /\ pc'[u].k = "prep") => (HasData /\ ~IsEmpty(store.data))
          /\ (pc[u].k = "prep" /\ HasData /\ Completes("graph") /\ ret'.user = u) =>
                (ret'.kind = "returned" /\ ~ret'.prepared.isNone)
      ]_vars

\* The row labels prepare_data keeps of n rows.
KeptLabels(n) ==
    IF n <= MAX_POINTS THEN 0..(n - 1)
    ELSE {i \in 0..(n - 1) : i % (n \div MAX_POINTS) = 0}

ReturnsTable == HasData /\ Completes("graph") /\ ret'.kind = "returned"
                  /\ ~ret'.prepared.isNone

\* The x-axis column and x-values of the first two cases: the literal
\* 'Date/Time' column parsed with the fixed pattern, else Date + ' ' + Time
\* parsed best-effort.
TimeAxisAsClaimed(d, r) ==
    LET x == GetCol(r.df, r.x_col)
    IN  IF HasCol(d, N_DateTime)
        THEN /\ r.x_col = N_DateTime
             /\ \A i \in 1..NRows(d) :
                   LET c == GetCol(d, N_DateTime)[i]
                   IN  x[i] = IF c.t = "str" THEN ParseFixed(c.s)
                              ELSE IF c.t = "ts" THEN c ELSE NaT
        ELSE /\ r.x_col = N_DateTime
             /\ \A i \in 1..NRows(d) :
                   LET a == GetCol(d, N_Date)[i]
                       b == GetCol(d, N_Time)[i]
                   IN  x[i] = IF a.t = "str" /\ b.t = "str"
                              THEN ParseGeneric(a.s \o <<" ">> \o b.s) ELSE NaT

IsTimeAxis(d) ==
    HasCol(d, N_DateTime) \/ (HasCol(d, N_Date) /\ HasCol(d, N_Time))

C10_PrepareReadOnly == [][Completes("graph") => store' = store]_vars

\* A chart-preparation or upload-status callback that completes on a store
\* holding no dataset: it passed, or is at, its test for a dataset.
ReadsMissing == (Completes("graph") \/ Completes("status")) /\ ~HasData

\* C11: a reset of one user interleaved with a chart-preparation or
\* upload-status callback of another user never makes the reading callback
\* fail: when it finds the store without a dataset, also when the store was
\* emptied between its test for a dataset and its read, it yields the empty
\* chart (prepare_data returns None) or the 'No file uploaded yet.' status,
\* never an error raised on the missing dataset.
C11_ReadNeverFails ==
    [][ReadsMissing =>
          \/ /\ ret'.op = "graph" /\ ret'.kind = "returned"
             /\ ret'.prepared.isNone /\ ret'.fig = "empty"
          \/ ret'.op = "status" /\ ret'.kind = "no_file"]_vars

=============================================================================
